---- MODULE Spec2Model ----
(***************************************************************************)
(* Model of the GuildWars2 API client library.                             *)
(*                                                                         *)
(*   src/GuildWars2API.py   later revision: GW2APISession, GW2API,         *)
(*                          GW2Thing, GW2List, GW2Enum                     *)
(*   src/GuildWars2-API.py  earlier revision: GuildWars2Broker, GW2API     *)
(*                                                                         *)
(* The library is driven by a caller and answered by a remote server; both *)
(* are the environment.  Every action is one call of the caller into the   *)
(* library, with the server's answers to the requests of that call drawn   *)
(* with \E.  `last` records the call that just returned: what was called,  *)
(* with which arguments, which requests reached the transport, and how the *)
(* call ended.                                                             *)
(*                                                                         *)
(* Encoding of Python values:                                              *)
(*   None / a value      <<>> / <<v>>            (None, Some)              *)
(*   a dict from the API a function from a subset of Keys to 0..MaxId      *)
(*   an identity value   a number of 0..MaxN; 0 stands for the falsy       *)
(*                       identities (the integer 0, the empty string)      *)
(*   a reference         [kind, id, rec]: kind says whether the Python     *)
(*                       value is a str, an int, a dict or None            *)
(***************************************************************************)
EXTENDS Integers, Sequences, FiniteSets, TLC

VARIABLES
    token,          \* GW2APISession.__token
    token_info,     \* GW2APISession.token_info
    broker_token,   \* GuildWars2Broker._token
    api_ids,        \* ids of a catalog object of the earlier revision
    obj,            \* the __dict__ of one GW2Thing (without _session)
    ids,            \* GW2List._ids
    things,         \* GW2List._things
    count,          \* GW2List.count
    enum_type,      \* GW2List._enum_type is set
    last            \* the call that just returned

vars == <<token, token_info, broker_token, api_ids, obj, ids, things, count,
          enum_type, last>>

-----------------------------------------------------------------------------
(* Bounds of the model and constants of the program *)

\* identities and field values range over 0..MaxId; reference lists drawn
\* freely have at most MaxId entries
MaxId == 2

\* the long id lists are 1..n for n up to MaxN
MaxN == 22

\* id[i:i+20] in GW2Enum.get
BatchSize == 20

\* range(0, len(id), 3) in GW2Enum.get
ChunkStep == 3

\* ThreadPool(1) in GW2List.refresh
PoolSize == 1

-----------------------------------------------------------------------------
(* Python values *)

None == <<>>

Some(x) == <<x>>

Keys == {"id", "name", "count", "details"}

Values == 0 .. MaxId

Scopes == {"account", "inventories"}

Credentials == {"tokA", "tokB"}

EmptyRec == [k \in {} |-> 0]

\* the values of the fields other than id
FieldValues == {0, 1}

\* every dict with keys among K: an identity under "id", a field value under
\* every other key
RecordsOver(K) ==
    {r \in UNION {[D -> Values \cup FieldValues] : D \in SUBSET K} :
        \A k \in DOMAIN r : k # "id" => r[k] \in FieldValues}

RawRecords == RecordsOver(Keys)

\* Python truthiness of an optional string: None and "" are falsy
Truthy(t) == t # None /\ t[1] # ""

Min(a, b) == IF a < b THEN a ELSE b

\* the list [1, 2, ..., n]
Iota(n) == [i \in 1 .. n |-> i]

\* Python's s[i:j] on a list, i and j zero-based and i <= len(s)
Slice(s, i, j) == SubSeq(s, i + 1, Min(j, Len(s)))

\* every list over S of length at most n
SeqsUpTo(S, n) == UNION {[1 .. k -> S] : k \in 0 .. n}

\* the lists without repetition
Distinct(s) == \A i, j \in 1 .. Len(s) : i # j => s[i] # s[j]

Range(s) == {s[i] : i \in 1 .. Len(s)}

\* the sub-list of s of the positions in P, in order
RECURSIVE Pick(_, _, _)
Pick(s, P, i) ==
    IF i > Len(s) THEN <<>>
    ELSE (IF i \in P THEN <<s[i]>> ELSE <<>>) \o Pick(s, P, i + 1)

-----------------------------------------------------------------------------
(* The record of a call *)

Faults == {"ok", "HTTPError", "URLError", "JSONDecodeError"}

\* what the token-metadata endpoint answers
TokenInfos == {[name |-> "key", permissions |-> P] : P \in SUBSET Scopes}

\* the workers of ThreadPool(1)
Workers == 1 .. PoolSize

\* a ThreadPool and its map(): the chunks not yet taken, the chunk and the
\* position each worker is at (chunk 0: waiting), the result of every unit,
\* the chunks that are done, and the first exception
NoPool ==
    [queue   |-> <<>>,
     running |-> [w \in Workers |-> [chunk |-> 0, pos |-> 0]],
     results |-> <<>>,
     chunks  |-> 0,
     done    |-> {},
     failed  |-> "none"]

NoCall ==
    [op        |-> "none",     \* the operation called
     outcome   |-> "ok",       \* "ok", the exception that reached the caller,
                               \* or "running" while the call has not returned
     reqs      |-> <<>>,       \* the requests handed to urlopen, in order
     fault     |-> "none",     \* how the transport ended the last request
     auth      |-> FALSE,      \* argument auth
     headers   |-> EmptyRec,   \* argument headers; None is the empty dict
     scopes    |-> {},         \* _required_scopes of the component
     cred      |-> "",         \* argument value of the token setter
     argKind   |-> "none",     \* the id / ids argument: "none", "id", "dict", "list"
     argIds    |-> <<>>,       \* argument id, a list
     argRec    |-> EmptyRec,   \* argument id, a dict
     argRefs   |-> <<>>,       \* argument ids of GW2List
     served    |-> <<>>,       \* the records the server answered with
     servedRefs |-> <<>>,      \* the reference list the server answered with
     servedTok |-> None,       \* the token metadata the server answered with
     ret       |-> <<>>,       \* the entities returned
     retKind   |-> "none",     \* "none", "one" entity, a "list", or "null"
                               \* when the call returned None
     refreshes |-> 0,          \* runs of GW2List.refresh in the call
     pool      |-> NoPool]     \* the ThreadPool of a refresh that is running

\* the library is synchronous: the caller calls when the previous call has
\* returned and its result has been taken
Idle == last.op = "none"

\* the caller takes the result of the call that returned
Return ==
    /\ ~Idle
    /\ last.outcome # "running"
    /\ last' = NoCall
    /\ UNCHANGED <<token, token_info, broker_token, api_ids, obj, ids, things,
                   count, enum_type>>

-----------------------------------------------------------------------------
(* GW2APISession: src/GuildWars2API.py *)

\* _headers attaching the header whether or not a token is set
HeadersUnconditional(tok) == IF tok = None THEN Some("None") ELSE tok

\* _headers: the bearer of the Authorization header, None for no header
Headers(tok) == IF Truthy(tok) THEN tok ELSE None

\* the dict of _headers and of std_headers for a bearer
HeaderDict(bearer) ==
    IF bearer = None THEN EmptyRec
    ELSE [Authorization |-> "Bearer " \o bearer[1]]

\* `if headers: api_headers.update(headers)`
MergeHeaders(base, headers) ==
    [k \in DOMAIN base \cup DOMAIN headers |->
        IF k \in DOMAIN headers THEN headers[k] ELSE base[k]]

\* the headers a caller hands to make_request
CallerHeaders ==
    {EmptyRec, [Accept |-> "application/json"], [Authorization |-> "Basic abc"]}

\* the Request make_request builds; key "none" is params=None or {}
SessionRequest(tok, url, key, shape, val) ==
    [url |-> url, key |-> key, shape |-> shape, val |-> val,
     bearer |-> Headers(tok),
     headers |-> HeaderDict(Headers(tok))]

\* the except clause of make_request
APIErrorOf(fault) ==
    IF fault \in {"HTTPError", "URLError", "JSONDecodeError"}
    THEN "APIError" ELSE "ok"

\* the token setter stores the value before it fetches the metadata
StoredTokenIfFetched(value, fault) ==
    IF fault = "ok" THEN Some(value) ELSE token

StoredToken(value, fault) == Some(value)

\* token_info is assigned only when Token(session=self) returned
StoredTokenInfo(fault, info) ==
    IF fault = "ok" THEN Some(info) ELSE token_info

\* the token setter, called as `op`
SetToken(op, value) ==
    \E fault \in Faults, info \in TokenInfos :
        /\ token' = StoredToken(value, fault)
        /\ token_info' = StoredTokenInfo(fault, info)
        /\ last' = [NoCall EXCEPT
                !.op = op, !.cred = value,
                !.reqs = <<SessionRequest(StoredToken(value, fault),
                                          "v2/tokeninfo", "none", "none", <<>>)>>,
                !.fault = fault,
                !.outcome = APIErrorOf(fault),
                !.servedTok = IF fault = "ok" THEN Some(info) ELSE None]
        /\ UNCHANGED <<broker_token, api_ids, obj, ids, things, count,
                       enum_type>>

TokenSetter ==
    /\ Idle
    /\ \E value \in Credentials : SetToken("token.setter", value)

LoadToken ==
    /\ Idle
    /\ \E readable \in BOOLEAN, value \in Credentials :
        IF readable
        THEN SetToken("load_token", value)
        ELSE /\ last' = [NoCall EXCEPT !.op = "load_token", !.outcome = "IOError"]
             /\ UNCHANGED <<token, token_info, broker_token, api_ids, obj,
                            ids, things, count, enum_type>>

Urls == {"v2/account", "v2/items"}

\* make_request dropping the token metadata when the request fails
MakeRequestInvalidatesToken ==
    /\ Idle
    /\ \E url \in Urls, fault \in Faults :
        /\ last' = [NoCall EXCEPT
                     !.op = "make_request",
                     !.reqs = <<SessionRequest(token, url, "none", "none", <<>>)>>,
                     !.fault = fault,
                     !.outcome = APIErrorOf(fault)]
        /\ token_info' = IF fault = "ok" THEN token_info ELSE None
        /\ UNCHANGED <<token, broker_token, api_ids, obj, ids, things, count,
                       enum_type>>

\* make_request(url, params) and make_request(url, params, auth=True): the
\* signature has no parameter auth, so the keyword is refused before the body runs
MakeRequest ==
    /\ Idle
    /\ \E url \in Urls, withId \in BOOLEAN, auth \in BOOLEAN, fault \in Faults,
          headers \in CallerHeaders :
        /\ last' =
             IF auth
             THEN [NoCall EXCEPT !.op = "make_request", !.auth = TRUE,
                                 !.outcome = "TypeError"]
             ELSE [NoCall EXCEPT
                     !.op = "make_request",
                     !.headers = headers,
                     !.reqs = <<[SessionRequest(token, url,
                                   IF withId THEN "id" ELSE "none",
                                   IF withId THEN "scalar" ELSE "none",
                                   IF withId THEN <<1>> ELSE <<>>)
                                 EXCEPT !.headers = MergeHeaders(@, headers)]>>,
                     !.fault = fault,
                     !.outcome = APIErrorOf(fault)]
        /\ UNCHANGED <<token, token_info, broker_token, api_ids, obj, ids,
                       things, count, enum_type>>

-----------------------------------------------------------------------------
(* GuildWars2Broker: src/GuildWars2-API.py *)

\* std_headers(auth)
StdHeaders(auth) == IF auth THEN broker_token ELSE None

\* only urlopen is inside the try; json.loads is after it
BrokerErrorOf(fault) ==
    CASE fault \in {"HTTPError", "URLError"} -> "APIError"
      [] fault = "JSONDecodeError" -> "ValueError"
      [] OTHER -> "ok"

BrokerMakeRequest ==
    /\ Idle
    /\ \E url \in Urls, auth \in BOOLEAN, fault \in Faults,
          headers \in CallerHeaders :
        /\ last' =
             IF auth /\ ~Truthy(broker_token)
             THEN [NoCall EXCEPT !.op = "broker.make_request", !.auth = auth,
                                 !.outcome = "AuthorizationRequired"]
             ELSE [NoCall EXCEPT
                     !.op = "broker.make_request", !.auth = auth,
                     !.headers = headers,
                     !.reqs = <<[url |-> url, key |-> "none", shape |-> "none",
                                 val |-> <<>>, bearer |-> StdHeaders(auth),
                                 headers |-> MergeHeaders(HeaderDict(StdHeaders(auth)),
                                                          headers)]>>,
                     !.fault = fault,
                     !.outcome = BrokerErrorOf(fault)]
        /\ UNCHANGED <<token, token_info, broker_token, api_ids, obj, ids,
                       things, count, enum_type>>

TokenFromString ==
    /\ Idle
    /\ \E tok \in Credentials :
        /\ broker_token' = Some(tok)
        /\ last' = [NoCall EXCEPT !.op = "token_from_string", !.cred = tok]
        /\ UNCHANGED <<token, token_info, api_ids, obj, ids, things, count,
                       enum_type>>

-----------------------------------------------------------------------------
(* GW2API of the earlier revision: src/GuildWars2-API.py.  A catalog class *)
(* (Worlds, Colors, Items, ...) fetches the ids of its endpoint when it is  *)
(* constructed and keeps them in self.ids                                   *)

CatalogUrl == "/v2/worlds"

\* the string 'all' where it stands among identity values
AllSentinel == 0 - 2

\* what the endpoint answers to the fetch of its ids
CatalogAnswers == {s \in SeqsUpTo(Values, MaxId) : Distinct(s)}

\* the arguments of get(): identity values and 'all', alone or in a list
GetArguments == SeqsUpTo(Values \cup {AllSentinel}, MaxId)

\* the Request the broker builds for a call without auth and without headers
BrokerRequest(url, key, shape, val) ==
    [url |-> url, key |-> key, shape |-> shape, val |-> val,
     bearer |-> StdHeaders(FALSE),
     headers |-> HeaderDict(StdHeaders(FALSE))]

\* Worlds(broker): self.ids = self._broker.make_request(self._endpoint_url)
NewCatalog ==
    /\ Idle
    /\ api_ids = None
    /\ \E fault \in Faults :
       \E answer \in IF fault = "ok" THEN CatalogAnswers ELSE {<<>>} :
        /\ api_ids' = IF fault = "ok" THEN Some(answer) ELSE api_ids
        /\ last' = [NoCall EXCEPT
                !.op = "Worlds",
                !.reqs = <<BrokerRequest(CatalogUrl, "none", "none", <<>>)>>,
                !.fault = fault,
                !.outcome = BrokerErrorOf(fault)]
        /\ UNCHANGED <<token, token_info, broker_token, obj, ids, things, count,
                       enum_type>>

\* `object_ids in self.ids`
InCatalog(v) == v \in Range(api_ids[1])

\* the validation of a list passing when one of its ids is in self.ids
ValidatedAny(object_ids) ==
    \E k \in 1 .. Len(object_ids) : InCatalog(object_ids[k])

\* all(item in self.ids for item in object_ids)
Validated(object_ids) ==
    \A k \in 1 .. Len(object_ids) : InCatalog(object_ids[k])

\* get(object_ids, item_type) on a catalog object: object_ids is a list, a
\* tuple, the string 'all' or one identity value
CatalogGet ==
    /\ Idle
    /\ api_ids # None
    /\ \E kind \in {"list", "tuple", "all", "id"}, arg \in GetArguments,
          fault \in Faults :
        /\ kind = "all" => arg = <<>>
        /\ kind = "id" => (Len(arg) = 1 /\ arg[1] # AllSentinel)
        /\ LET base == [NoCall EXCEPT !.op = "GW2API.get", !.argKind = kind,
                                      !.argIds = arg]
               refused == [base EXCEPT !.retKind = "null"]
               sent(key, shape, val, kindOfResult) ==
                   [base EXCEPT
                      !.reqs = <<BrokerRequest(CatalogUrl, key, shape, val)>>,
                      !.fault = fault,
                      !.outcome = BrokerErrorOf(fault),
                      !.retKind = IF fault = "ok" THEN kindOfResult ELSE "none"]
           IN  last' =
                 IF kind \in {"list", "tuple"}
                 THEN IF ~Validated(arg) THEN refused
                      ELSE sent("ids", "csv", arg, "list")
                 ELSE IF kind = "all"
                 THEN sent("ids", "all", <<>>, "list")
                 ELSE IF ~InCatalog(arg[1]) THEN refused
                 ELSE sent("id", "scalar", arg, "one")
    /\ UNCHANGED <<token, token_info, broker_token, api_ids, obj, ids, things,
                   count, enum_type>>

-----------------------------------------------------------------------------
(* GW2API.__init__: the scope gate every component runs first *)

\* getattr(self._session.token_info, 'permissions', [])
Permissions == IF token_info = None THEN {} ELSE token_info[1].permissions

\* all(s in scopes for s in scopes): the token's scopes against themselves
ScopesPresent(required, scopes) == \A s \in scopes : s \in scopes

\* how GW2API.__init__ ends for a component declaring `required`
GateOutcome(required) ==
    IF required # {} /\ ~ScopesPresent(required, Permissions)
    THEN "TokenMissingScope" ELSE "ok"

\* GW2API(session) of a class declaring `required`
NewAPI ==
    /\ Idle
    /\ \E required \in SUBSET Scopes :
        /\ last' = [NoCall EXCEPT !.op = "GW2API", !.scopes = required,
                                  !.outcome = GateOutcome(required)]
        /\ UNCHANGED <<token, token_info, broker_token, api_ids, obj, ids,
                       things, count, enum_type>>

-----------------------------------------------------------------------------
(* The session and the broker *)

Init ==
    /\ token = None
    /\ token_info = None
    /\ broker_token = None
    /\ api_ids = None
    /\ obj = None
    /\ ids = None
    /\ things = None
    /\ count = 0
    /\ enum_type = FALSE
    /\ last = NoCall

Next ==
    \/ TokenSetter
    \/ LoadToken
    \/ MakeRequest
    \/ BrokerMakeRequest
    \/ TokenFromString
    \/ NewAPI
    \/ Return

Spec == Init /\ [][Next]_vars

\* the catalog object of the earlier revision, driven by its caller
NextCatalog ==
    \/ NewCatalog
    \/ CatalogGet
    \/ Return

SpecCatalog == Init /\ [][NextCatalog]_vars

-----------------------------------------------------------------------------
(* GW2Thing: src/GuildWars2API.py *)

\* the states a session is left in by its constructor or by the token setter
SessionStates ==
    {<<None, None>>} \cup
    {<<Some("tokA"), Some([name |-> "key", permissions |-> {"account"}])>>}

\* the names the classes define as properties: an attribute read of one of
\* them runs the property and never reaches the instance __dict__
DataDescriptors == {"details", "_log"}

\* _update_obj replacing the fields by those of info
UpdateObjReplace(d, info) == info

\* _update_obj: self.__dict__[k] = v for every item of info
UpdateObj(d, info) ==
    [k \in DOMAIN d \cup DOMAIN info |->
        IF k \in DOMAIN info THEN info[k] ELSE d[k]]

\* the attribute read thing.k on an object whose __dict__ is d, k in d
GetAttr(d, k) ==
    IF k \in DataDescriptors
    THEN [via |-> "property", v |-> 0]
    ELSE [via |-> "dict", v |-> d[k]]

\* the canonical record of identity i
Catalog(i) == [id |-> i, name |-> i]

\* what the server may answer to a fetch by identity i
ServerRecords(i) ==
    {r \in RecordsOver({"id", "name", "count"}) : "id" \in DOMAIN r /\ r.id = i}

ThingUrl == "v2/items"

\* params of GW2Thing.refresh for an object whose __dict__ is d
RefreshRequest(d) ==
    IF "id" \in DOMAIN d
    THEN SessionRequest(token, ThingUrl, "id", "scalar", <<d.id>>)
    ELSE SessionRequest(token, ThingUrl, "none", "none", <<>>)

\* GW2Thing(id, session) with id a dict
NewThingFromRecord ==
    /\ Idle
    /\ \E rec \in RawRecords :
        /\ obj' = Some(UpdateObj(EmptyRec, rec))
        /\ last' = [NoCall EXCEPT
                !.op = "GW2Thing", !.argKind = "dict", !.argRec = rec,
                !.outcome = GateOutcome({}),
                !.retKind = "one", !.ret = <<UpdateObj(EmptyRec, rec)>>]
        /\ UNCHANGED <<token, token_info, broker_token, api_ids, ids, things,
                       count, enum_type>>

\* GW2Thing(id, session) with id an identity value: self.id = id; refresh()
NewThingById ==
    /\ Idle
    /\ \E id \in Values, fault \in Faults :
        \E resp \in IF fault = "ok" THEN ServerRecords(id) ELSE {Catalog(id)} :
            LET d0 == [id |-> id]
                d1 == UpdateObj(d0, resp)
            IN  /\ obj' = IF fault = "ok" THEN Some(d1) ELSE obj
                /\ last' = [NoCall EXCEPT
                        !.op = "GW2Thing", !.argKind = "id", !.argIds = <<id>>,
                        !.reqs = <<RefreshRequest(d0)>>,
                        !.fault = fault,
                        !.outcome = APIErrorOf(fault),
                        !.served = IF fault = "ok" THEN <<resp>> ELSE <<>>,
                        !.retKind = IF fault = "ok" THEN "one" ELSE "none",
                        !.ret = IF fault = "ok" THEN <<d1>> ELSE <<>>]
                /\ UNCHANGED <<token, token_info, broker_token, api_ids, ids,
                               things, count, enum_type>>

\* GW2Thing.refresh on the object
ThingRefresh ==
    /\ Idle
    /\ obj # None
    /\ \E fault \in Faults :
        \E resp \in IF fault # "ok" THEN {Catalog(0)}
                    ELSE IF "id" \in DOMAIN obj[1] THEN ServerRecords(obj[1].id)
                    ELSE UNION {ServerRecords(i) : i \in Values} :
            /\ obj' = IF fault = "ok" THEN Some(UpdateObj(obj[1], resp)) ELSE obj
            /\ last' = [NoCall EXCEPT
                    !.op = "GW2Thing.refresh", !.argRec = obj[1],
                    !.reqs = <<RefreshRequest(obj[1])>>,
                    !.fault = fault,
                    !.outcome = APIErrorOf(fault),
                    !.served = IF fault = "ok" THEN <<resp>> ELSE <<>>]
            /\ UNCHANGED <<token, token_info, broker_token, api_ids, ids,
                           things, count, enum_type>>

-----------------------------------------------------------------------------
(* GW2Enum: src/GuildWars2API.py *)

EnumUrl == "v2/items"

\* thing_type(g, session) for a dict g: no request
ThingOf(g) == UpdateObj(EmptyRec, g)

\* the id lists handed to get(): the short ones, and 1..n around the batch size
IdLists ==
    SeqsUpTo(1 .. MaxId, MaxId) \cup {Iota(n) : n \in (BatchSize - 1) .. MaxN}

\* range(0, len(id), 3)
LoopStarts(n) == {i \in 0 .. (n - 1) : i % ChunkStep = 0}

\* the starts whose loop body runs: the body of the first one returns
VisitedStarts(n) == {i \in LoopStarts(n) : \A j \in LoopStarts(n) : i <= j}

\* the id[i:i+20] of the visited starts, in order (at most one)
Batches(id) ==
    IF VisitedStarts(Len(id)) = {} THEN <<>>
    ELSE LET i == CHOOSE j \in VisitedStarts(Len(id)) : TRUE
         IN  <<Slice(id, i, i + BatchSize)>>

Reverse(s) == [k \in 1 .. Len(s) |-> s[Len(s) + 1 - k]]

\* str(None), what ','.join writes for an element that is None
NoneId == 0 - 1

\* the ids the server may hold valid among those of a list
ValidSets(id) ==
    IF Len(id) <= MaxId THEN SUBSET (Range(id) \ {NoneId})
    ELSE {Range(id), Range(id) \ {id[1]}}

\* the server's answer to ?ids=batch: the records of the valid ids, once each,
\* in request order or in the opposite order
Answer(batch, valid, rev) ==
    LET first == {k \in 1 .. Len(batch) :
                    /\ batch[k] \in valid
                    /\ \A j \in 1 .. (k - 1) : batch[j] # batch[k]}
        inOrder == Pick(batch, first, 1)
        sent == IF rev THEN Reverse(inOrder) ELSE inOrder
    IN  [k \in 1 .. Len(sent) |-> Catalog(sent[k])]

RECURSIVE Flatten(_)
Flatten(ss) == IF ss = <<>> THEN <<>> ELSE Head(ss) \o Flatten(Tail(ss))

\* the requests of get(id) for a list id
ListRequests(id) ==
    [b \in 1 .. Len(Batches(id)) |->
        SessionRequest(token, EnumUrl, "ids", "csv", Batches(id)[b])]

\* the records get(id) receives for a list id
ListServed(id, valid, rev) ==
    Flatten([b \in 1 .. Len(Batches(id)) |-> Answer(Batches(id)[b], valid, rev)])

\* get(id) with id a list or tuple
EnumGetList ==
    /\ Idle
    /\ \E id \in IdLists, fault \in Faults :
        \E rev \in IF fault = "ok" THEN BOOLEAN ELSE {FALSE},
           valid \in IF fault = "ok" THEN ValidSets(id) ELSE {Range(id)} :
            LET reqs == ListRequests(id)
                recs == ListServed(id, valid, rev)
            IN  /\ last' =
                     IF reqs = <<>>
                     THEN [NoCall EXCEPT !.op = "GW2Enum.get",
                                         !.argKind = "list", !.argIds = id]
                     ELSE IF fault # "ok"
                     THEN [NoCall EXCEPT !.op = "GW2Enum.get",
                                         !.argKind = "list", !.argIds = id,
                                         !.reqs = <<reqs[1]>>,
                                         !.fault = fault,
                                         !.outcome = APIErrorOf(fault)]
                     ELSE [NoCall EXCEPT !.op = "GW2Enum.get",
                                         !.argKind = "list", !.argIds = id,
                                         !.reqs = reqs,
                                         !.fault = fault,
                                         !.served = recs,
                                         !.retKind = "list",
                                         !.ret = [k \in 1 .. Len(recs) |-> ThingOf(recs[k])]]
                /\ UNCHANGED <<token, token_info, broker_token, api_ids, obj,
                               ids, things, count, enum_type>>

\* get(id) with id one identity value
EnumGetOne ==
    /\ Idle
    /\ \E id \in Values, fault \in Faults :
        \E resp \in IF fault = "ok" THEN ServerRecords(id) ELSE {Catalog(id)} :
            /\ last' = [NoCall EXCEPT
                    !.op = "GW2Enum.get", !.argKind = "id", !.argIds = <<id>>,
                    !.reqs = <<SessionRequest(token, EnumUrl, "id", "scalar", <<id>>)>>,
                    !.fault = fault,
                    !.outcome = APIErrorOf(fault),
                    !.served = IF fault = "ok" THEN <<resp>> ELSE <<>>,
                    !.retKind = IF fault = "ok" THEN "one" ELSE "none",
                    !.ret = IF fault = "ok" THEN <<ThingOf(resp)>> ELSE <<>>]
            /\ UNCHANGED <<token, token_info, broker_token, api_ids, obj, ids,
                           things, count, enum_type>>

\* what get() returns for the catalog the server answered ?id=all with, once
\* the second answer is known: the catalog is no dict, so thing_type keeps it
\* as self.id and refreshes, and the answer to that fetch is merged
AllResult(catalog, resp2) == <<UpdateObj(EmptyRec, resp2)>>

AllResultKind(catalog) == "one"

\* get() with no id: id = 'all', which is no list
EnumGetAll ==
    /\ Idle
    /\ \E fault \in Faults :
        \E n \in IF fault = "ok" THEN 0 .. MaxId ELSE {0},
           fault2 \in IF fault = "ok" THEN Faults ELSE {"ok"} :
        \E dict2 \in IF fault = "ok" /\ fault2 = "ok" THEN BOOLEAN ELSE {FALSE} :
        \E resp2 \in IF dict2 THEN UNION {ServerRecords(i) : i \in Values}
                     ELSE {Catalog(0)} :
            LET catalog == [k \in 1 .. n |-> Catalog(k)]
                req1 == SessionRequest(token, EnumUrl, "id", "all", <<>>)
                req2 == SessionRequest(token, EnumUrl, "id", "repr", Iota(n))
                base == [NoCall EXCEPT !.op = "GW2Enum.get", !.argKind = "none"]
            IN  /\ last' =
                     IF fault # "ok"
                     THEN [base EXCEPT !.reqs = <<req1>>, !.fault = fault,
                                       !.outcome = APIErrorOf(fault)]
                     ELSE IF fault2 # "ok"
                     THEN [base EXCEPT !.reqs = <<req1, req2>>, !.fault = fault2,
                                       !.served = catalog,
                                       !.outcome = APIErrorOf(fault2)]
                     ELSE IF ~dict2
                     THEN [base EXCEPT !.reqs = <<req1, req2>>, !.fault = fault2,
                                       !.served = catalog,
                                       !.outcome = "AttributeError"]
                     ELSE [base EXCEPT !.reqs = <<req1, req2>>, !.fault = fault2,
                                       !.served = catalog,
                                       !.retKind = AllResultKind(catalog),
                                       !.ret = AllResult(catalog, resp2)]
                /\ UNCHANGED <<token, token_info, broker_token, api_ids, obj,
                               ids, things, count, enum_type>>

-----------------------------------------------------------------------------
(* Entities and enumerations on a session *)

InitOnSession ==
    /\ \E st \in SessionStates : token = st[1] /\ token_info = st[2]
    /\ broker_token = None
    /\ api_ids = None
    /\ obj = None
    /\ ids = None
    /\ things = None
    /\ count = 0
    /\ enum_type = FALSE
    /\ last = NoCall

NextEntity ==
    \/ NewThingFromRecord
    \/ NewThingById
    \/ ThingRefresh
    \/ Return

SpecEntity == InitOnSession /\ [][NextEntity]_vars

NextEnum ==
    \/ EnumGetList
    \/ EnumGetOne
    \/ EnumGetAll
    \/ Return

SpecEnum == InitOnSession /\ [][NextEnum]_vars

-----------------------------------------------------------------------------
(* GW2List: src/GuildWars2API.py *)

ListUrl == "v2/account/bank"

StrRef(i) == [kind |-> "str", id |-> i, rec |-> EmptyRec]

IntRef(i) == [kind |-> "int", id |-> i, rec |-> EmptyRec]

DictRef(r) == [kind |-> "dict", id |-> 0, rec |-> r]

NullRef == [kind |-> "null", id |-> 0, rec |-> EmptyRec]

\* the overlay records: an id with a count, an id with a name that differs
\* from the canonical one, and a record without an id
OverlayRecords ==
    {[id |-> i, count |-> 1] : i \in Values} \cup
    {[id |-> 1, name |-> 0], [count |-> 1]}

Refs ==
    {StrRef(i) : i \in 1 .. MaxId} \cup {IntRef(i) : i \in 1 .. MaxId} \cup
    {DictRef(r) : r \in OverlayRecords} \cup {NullRef}

\* the reference lists: the short ones, and long ones of overlays and of ids
RefLists ==
    SeqsUpTo(Refs, MaxId) \cup
    {[k \in 1 .. n |-> DictRef([id |-> k, count |-> 1])] : n \in BatchSize .. MaxN} \cup
    {[k \in 1 .. n |-> StrRef(k)] : n \in {MaxN}}

\* i.get('id') on a dict reference
IdOf(ref) == IF "id" \in DOMAIN ref.rec THEN ref.rec.id ELSE NoneId

\* self._enum_type and all(isinstance(i, dict) for i in self._ids)
OverlayPath(refs) ==
    enum_type /\ \A k \in 1 .. Len(refs) : refs[k].kind = "dict"

\* for got_thing, orig_thing in zip(got_things, self._ids):
\*     if got_thing.id == orig_thing.get('id'): got_thing._update_obj(orig_thing)
ZipMerge(got, refs) ==
    [k \in 1 .. Len(got) |->
        IF k <= Len(refs) /\ GetAttr(got[k], "id").v = IdOf(refs[k])
        THEN UpdateObj(got[k], refs[k].rec)
        ELSE got[k]]

\* get_thing with a by-id fetch for string references only
FetchesBareOnly(ref) == ref.kind = "str"

\* get_thing: the branch a reference takes makes a by-id fetch
Fetches(ref) ==
    \/ ref.kind = "dict" /\ "id" \in DOMAIN ref.rec /\ ref.rec.id # 0
    \/ ref.kind = "str"

\* get_thing: the identity handed to thing_type
FetchId(ref) == IF ref.kind = "dict" THEN ref.rec.id ELSE ref.id

\* get_thing: the object returned for a reference whose fetch was answered
GotThing(ref) ==
    LET fetched == UpdateObj([id |-> FetchId(ref)], Catalog(FetchId(ref)))
    IN  IF ref.kind = "dict" THEN UpdateObj(fetched, ref.rec) ELSE fetched

\* pool.map cuts the units into chunks of this size; a chunk is run in order
\* by one worker and is abandoned at its first exception
ChunkSize(n) ==
    IF n % (4 * PoolSize) = 0 THEN n \div (4 * PoolSize)
    ELSE n \div (4 * PoolSize) + 1

\* the units of pool.map that run when the fetch of unit failAt fails
Executed(refs, failAt) ==
    {p \in 1 .. Len(refs) :
        \/ failAt = 0
        \/ p <= failAt
        \/ (p - 1) \div ChunkSize(Len(refs)) # (failAt - 1) \div ChunkSize(Len(refs))}

\* `if self._things is None` of __iter__
NeedsRefreshIfEmpty == things = None \/ things[1] = <<>>

NeedsRefresh == things = None

\* refresh emptying _things before it resolves the references
ThingsClearedFirst == Some(<<>>)

\* _things when a request of refresh raised: the assignments to _things and
\* count come after the last request
ThingsAfterFailure == things

\* GW2List.refresh, run inside the call `op`
RefreshBody(op) ==
    LET refs == ids[1]
        base == [NoCall EXCEPT !.op = op, !.refreshes = 1]
    IN
    IF OverlayPath(refs)
    THEN \* the companion enumeration resolves the ids, the overlays are merged
        LET idlist == [k \in 1 .. Len(refs) |-> IdOf(refs[k])]
            reqs == ListRequests(idlist)
        IN  \E fault \in Faults :
            \E rev \in IF fault = "ok" THEN BOOLEAN ELSE {FALSE},
               valid \in IF fault = "ok" THEN ValidSets(idlist) ELSE {{}} :
                LET recs == ListServed(idlist, valid, rev)
                    got == [k \in 1 .. Len(recs) |-> ThingOf(recs[k])]
                    merged == ZipMerge(got, refs)
                IN  IF reqs = <<>>
                    THEN \* get() returned None: zip(None, ...) raises
                         /\ fault = "ok" /\ ~rev
                         /\ last' = [base EXCEPT !.outcome = "TypeError"]
                         /\ UNCHANGED <<things, count>>
                    ELSE IF fault # "ok"
                    THEN /\ last' = [base EXCEPT !.reqs = <<reqs[1]>>,
                                                 !.fault = fault,
                                                 !.outcome = APIErrorOf(fault)]
                         /\ things' = ThingsAfterFailure
                         /\ UNCHANGED count
                    ELSE /\ things' = Some(merged)
                         /\ count' = Len(merged)
                         /\ last' = [base EXCEPT !.reqs = reqs, !.fault = fault,
                                                 !.served = recs,
                                                 !.retKind = "list",
                                                 !.ret = merged]
    ELSE IF enum_type
    THEN \* self._enum_type.get(self._ids): get runs with the id list as self
         /\ last' = [base EXCEPT !.outcome = "AttributeError"]
         /\ UNCHANGED <<things, count>>
    ELSE \* every reference is a unit of work of the pool
        \E failAt \in {0} \cup {p \in 1 .. Len(refs) : Fetches(refs[p])} :
        \E fault \in IF failAt = 0 THEN {"ok"} ELSE Faults \ {"ok"} :
            LET ran == {p \in Executed(refs, failAt) : Fetches(refs[p])}
                asked == Pick(refs, ran, 1)
                reqs == [k \in 1 .. Len(asked) |->
                            SessionRequest(token, ThingUrl, "id", "scalar",
                                           <<FetchId(asked[k])>>)]
                kept == Pick(refs, {p \in 1 .. Len(refs) : Fetches(refs[p])}, 1)
                got == [k \in 1 .. Len(kept) |-> GotThing(kept[k])]
            IN  IF failAt # 0
                THEN /\ last' = [base EXCEPT !.reqs = reqs, !.fault = fault,
                                             !.outcome = APIErrorOf(fault)]
                     /\ things' = ThingsAfterFailure
                     /\ UNCHANGED count
                ELSE /\ things' = Some(got)
                     /\ count' = Len(got)
                     /\ last' = [base EXCEPT
                             !.reqs = reqs,
                             !.fault = IF reqs = <<>> THEN "none" ELSE "ok",
                             !.retKind = "list", !.ret = got]

\* GW2List(session, ids): the class has or has no companion enumeration; the
\* model follows one collection object
NewList ==
    /\ Idle
    /\ ids = None
    /\ \E enum \in BOOLEAN, given \in BOOLEAN, refs \in RefLists :
       \E fault \in IF given /\ refs # <<>> THEN {"ok"} ELSE Faults :
        LET fetched == ~(given /\ refs # <<>>)
            req == SessionRequest(token, ListUrl, "none", "none", <<>>)
            base == [NoCall EXCEPT
                        !.op = "GW2List",
                        !.argKind = IF given THEN "list" ELSE "none",
                        !.outcome = GateOutcome({})]
        IN  \E answer \in IF fetched /\ fault = "ok" THEN RefLists ELSE {refs} :
            \* an argument of [] is falsy: the list is fetched all the same
            /\ ~given => refs = <<>>
            /\ IF fetched /\ fault # "ok"
               THEN /\ last' = [base EXCEPT !.reqs = <<req>>, !.fault = fault,
                                            !.outcome = APIErrorOf(fault)]
                    /\ UNCHANGED <<ids, things, count, enum_type>>
               ELSE /\ ids' = Some(answer)
                    /\ things' = None
                    /\ count' = 0
                    /\ enum_type' = enum
                    /\ last' = [base EXCEPT
                            !.argRefs = refs,
                            !.servedRefs = IF fetched THEN answer ELSE <<>>,
                            !.reqs = IF fetched THEN <<req>> ELSE <<>>,
                            !.fault = IF fetched THEN fault ELSE "none"]
        /\ UNCHANGED <<token, token_info, broker_token, api_ids, obj>>

\* GW2List.refresh()
ListRefresh ==
    /\ Idle
    /\ ids # None
    /\ RefreshBody("GW2List.refresh")
    /\ UNCHANGED <<token, token_info, broker_token, api_ids, obj, ids,
                   enum_type>>

\* GW2List.__iter__()
Iterate ==
    /\ Idle
    /\ ids # None
    /\ IF NeedsRefresh
       THEN RefreshBody("GW2List.__iter__")
       ELSE /\ last' = [NoCall EXCEPT !.op = "GW2List.__iter__",
                                      !.retKind = "list", !.ret = things[1]]
            /\ UNCHANGED <<things, count>>
    /\ UNCHANGED <<token, token_info, broker_token, api_ids, obj, ids,
                   enum_type>>

NextList ==
    \/ NewList
    \/ ListRefresh
    \/ Iterate
    \/ Return

SpecList == InitOnSession /\ [][NextList]_vars

-----------------------------------------------------------------------------
(* GW2List.refresh without companion enumeration, step by step: the calling *)
(* thread hands the units to the pool, the workers run them chunk by chunk, *)
(* and map() returns to the calling thread                                   *)

\* the faults of a fetch made by a worker
PoolFaults == {"ok", "URLError"}

Pending == [state |-> "pending", thing |-> EmptyRec]

\* get_thing returned None
Nothing == [state |-> "none", thing |-> EmptyRec]

Got(thing) == [state |-> "thing", thing |-> thing]

\* the number of chunks map() cuts n units into
ChunkCount(n) ==
    IF n = 0 THEN 0 ELSE (n + ChunkSize(n) - 1) \div ChunkSize(n)

ChunkStart(c, n) == (c - 1) * ChunkSize(n) + 1

ChunkEnd(c, n) == Min(c * ChunkSize(n), n)

WaitingWorker == [chunk |-> 0, pos |-> 0]

\* `with ThreadPool(1) as pool: got_things = pool.map(...)`: the units are
\* queued, the calling thread waits
PoolMap ==
    /\ Idle
    /\ ids # None
    /\ ~enum_type
    /\ last' = [NoCall EXCEPT
            !.op = "GW2List.refresh", !.outcome = "running", !.refreshes = 1,
            !.pool = [NoPool EXCEPT
                        !.queue = Iota(ChunkCount(Len(ids[1]))),
                        !.chunks = ChunkCount(Len(ids[1])),
                        !.results = [k \in 1 .. Len(ids[1]) |-> Pending]]]
    /\ UNCHANGED <<token, token_info, broker_token, api_ids, obj, ids, things,
                   count, enum_type>>

\* a waiting worker takes the next chunk off the task queue
WorkerTake ==
    /\ last.outcome = "running"
    /\ last.pool.queue # <<>>
    /\ \E w \in Workers :
        /\ last.pool.running[w].chunk = 0
        /\ last' = [last EXCEPT
                !.pool.queue = Tail(@),
                !.pool.running[w] =
                    [chunk |-> Head(last.pool.queue),
                     pos |-> ChunkStart(Head(last.pool.queue), Len(ids[1]))]]
    /\ UNCHANGED <<token, token_info, broker_token, api_ids, obj, ids, things,
                   count, enum_type>>

\* a worker runs get_thing on the unit it is at; an exception ends its chunk
WorkerRun ==
    /\ last.outcome = "running"
    /\ \E w \in Workers :
        /\ last.pool.running[w].chunk # 0
        /\ LET c == last.pool.running[w].chunk
               p == last.pool.running[w].pos
               ref == ids[1][p]
               atEnd == p = ChunkEnd(c, Len(ids[1]))
               next == IF atEnd THEN WaitingWorker ELSE [chunk |-> c, pos |-> p + 1]
               req == SessionRequest(token, ThingUrl, "id", "scalar", <<FetchId(ref)>>)
           IN  IF Fetches(ref)
               THEN \E fault \in PoolFaults :
                    IF fault = "ok"
                    THEN last' = [last EXCEPT
                            !.reqs = Append(@, req),
                            !.pool.results[p] = Got(GotThing(ref)),
                            !.pool.running[w] = next,
                            !.pool.done = IF atEnd THEN @ \cup {c} ELSE @]
                    ELSE last' = [last EXCEPT
                            !.reqs = Append(@, req),
                            !.pool.running[w] = WaitingWorker,
                            !.pool.done = @ \cup {c},
                            !.pool.failed = IF @ = "none" THEN fault ELSE @]
               ELSE last' = [last EXCEPT
                            !.pool.results[p] = Nothing,
                            !.pool.running[w] = next,
                            !.pool.done = IF atEnd THEN @ \cup {c} ELSE @]
    /\ UNCHANGED <<token, token_info, broker_token, api_ids, obj, ids, things,
                   count, enum_type>>

\* map() returning as soon as the task queue is drained
JoinedWhenQueueEmpty(pool) == pool.queue = <<>>

\* map() returns when the result of every chunk is in
Joined(pool) == Cardinality(pool.done) = pool.chunks

\* [t for t in got_things if t is not None]
Collected(results) ==
    LET kept == Pick(results, {k \in 1 .. Len(results) : results[k].state = "thing"}, 1)
    IN  [j \in 1 .. Len(kept) |-> kept[j].thing]

\* map() returns or raises in the calling thread; refresh stores the entities
PoolJoin ==
    /\ last.outcome = "running"
    /\ Joined(last.pool)
    /\ IF last.pool.failed = "none"
       THEN /\ things' = Some(Collected(last.pool.results))
            /\ count' = Len(Collected(last.pool.results))
            /\ last' = [last EXCEPT
                    !.outcome = "ok",
                    !.fault = IF last.reqs = <<>> THEN "none" ELSE "ok",
                    !.retKind = "list",
                    !.ret = Collected(last.pool.results)]
       ELSE /\ last' = [last EXCEPT
                    !.outcome = APIErrorOf(last.pool.failed),
                    !.fault = last.pool.failed]
            /\ UNCHANGED <<things, count>>
    /\ UNCHANGED <<token, token_info, broker_token, api_ids, obj, ids,
                   enum_type>>

NextPool ==
    \/ NewList
    \/ PoolMap
    \/ WorkerTake
    \/ WorkerRun
    \/ PoolJoin
    \/ Return

SpecPool == InitOnSession /\ [][NextPool]_vars

-----------------------------------------------------------------------------
(* A program of the later revision: one session, whose credential the      *)
(* caller sets before it builds components, shared by the components the   *)
(* caller builds and uses on it, one at a time                             *)

NoComponent == obj = None /\ ids = None

SessionCall ==
    /\ NoComponent
    /\ (TokenSetter \/ LoadToken \/ MakeRequest \/ NewAPI)

EnumCall ==
    /\ NoComponent
    /\ (EnumGetList \/ EnumGetOne \/ EnumGetAll)

EntityCall ==
    /\ ids = None
    /\ (NewThingFromRecord \/ NewThingById \/ ThingRefresh)

CollectionCall ==
    /\ obj = None
    /\ (NewList \/ ListRefresh \/ Iterate \/ PoolMap)

PoolStep == WorkerTake \/ WorkerRun \/ PoolJoin

NextShared ==
    \/ SessionCall
    \/ EnumCall
    \/ EntityCall
    \/ CollectionCall
    \/ PoolStep
    \/ Return

SpecShared == Init /\ [][NextShared]_vars

-----------------------------------------------------------------------------
(* Properties *)

CeilDiv(a, b) == (a + b - 1) \div b

RefreshOps == {"GW2List.refresh", "GW2List.__iter__"}

\* C1: a make_request call with auth=true on a session (or broker) that holds
\* no credential ends with AuthorizationRequired and hands no request to the
\* transport.
C1_AuthGate ==
    /\ (last.op = "make_request" /\ last.auth /\ token = None)
          => (last.outcome = "AuthorizationRequired" /\ last.reqs = <<>>)
    /\ (last.op = "broker.make_request" /\ last.auth /\ broker_token = None)
          => (last.outcome = "AuthorizationRequired" /\ last.reqs = <<>>)

\* C2: constructing a component that declares required scopes ends with
\* MissingScope exactly when the token's permissions are no superset of them.
C2_ScopeGate ==
    (last.op = "GW2API" /\ last.scopes # {})
        => (last.outcome = "TokenMissingScope" <=> ~(last.scopes \subseteq Permissions))

\* C3: get() of a list of N ids whose requests are all answered issues
\* ceil(N / 20) requests of at most 20 ids each, which are the consecutive
\* batches of the list, and returns entities whose identities are those of the
\* records the server answered with.
C3_Chunking ==
    (last.op = "GW2Enum.get" /\ last.argKind = "list" /\ last.outcome = "ok")
        => /\ Len(last.reqs) = CeilDiv(Len(last.argIds), BatchSize)
           /\ \A k \in 1 .. Len(last.reqs) : Len(last.reqs[k].val) <= BatchSize
           /\ Flatten([k \in 1 .. Len(last.reqs) |-> last.reqs[k].val]) = last.argIds
           /\ {last.ret[k].id : k \in 1 .. Len(last.ret)}
                = {last.served[k].id : k \in 1 .. Len(last.served)}

\* C4: after a refresh through the companion enumeration of a collection whose
\* references are overlay records with distinct ids, fewer of them than one
\* batch holds, every reference whose id the server resolved has an entity of
\* that id carrying every canonical field and every overlay field of the
\* reference, the overlay value on conflict.
C4_OverlayByIdentity ==
    (/\ last.op \in RefreshOps /\ last.refreshes = 1 /\ last.outcome = "ok"
     /\ ids # None /\ things # None
     /\ OverlayPath(ids[1])
     /\ Len(ids[1]) < BatchSize
     /\ \A k \in 1 .. Len(ids[1]) : "id" \in DOMAIN ids[1][k].rec
     /\ \A j, k \in 1 .. Len(ids[1]) : j # k => IdOf(ids[1][j]) # IdOf(ids[1][k]))
        => \A k \in 1 .. Len(ids[1]) :
            LET ov == ids[1][k].rec
            IN  (\E j \in 1 .. Len(last.served) : last.served[j].id = ov.id)
                => \E e \in Range(things[1]) :
                    /\ "id" \in DOMAIN e /\ GetAttr(e, "id").v = ov.id
                    /\ \A f \in DOMAIN Catalog(ov.id) \cup DOMAIN ov :
                        /\ f \in DOMAIN e
                        /\ GetAttr(e, f) =
                             [via |-> "dict",
                              v |-> IF f \in DOMAIN ov THEN ov[f]
                                    ELSE Catalog(ov.id)[f]]

\* C5: a refresh without companion enumeration of a list of bare ids and null
\* entries, all of whose fetches are answered, does not raise and resolves to
\* as many entities as the list has bare ids.
C5_LenientDrop ==
    (/\ last.op \in RefreshOps /\ last.refreshes = 1
     /\ last.fault \in {"none", "ok"}
     /\ ids # None /\ ~enum_type
     /\ \A k \in 1 .. Len(ids[1]) : ids[1][k].kind \in {"str", "int", "null"})
        => /\ last.outcome = "ok"
           /\ things # None
           /\ Len(things[1])
                = Cardinality({k \in 1 .. Len(ids[1]) : ids[1][k].kind \in {"str", "int"}})
           /\ count = Len(things[1])

\* C6: an iteration of an unresolved collection runs refresh() once; an
\* iteration of a resolved one, the empty resolution included, runs no
\* refresh, issues no request and yields the sequence resolved before.
C6_LazyResolveOnce ==
    [][last'.op = "GW2List.__iter__" =>
        IF things = None
        THEN last'.refreshes = 1
        ELSE /\ last'.refreshes = 0
             /\ last'.reqs = <<>>
             /\ last'.outcome = "ok"
             /\ last'.ret = things[1]
             /\ things' = things
             /\ count' = count]_vars

C6_Witness ==
    /\ last.op = "GW2List.__iter__"
    /\ last.refreshes = 0
    /\ things = Some(<<>>)

\* C7: an entity constructed from a pre-fetched record issues no request, and
\* every key of the record reads back on the entity with the record's value.
C7_RoundTrip ==
    (last.op = "GW2Thing" /\ last.argKind = "dict")
        => /\ last.outcome = "ok"
           /\ last.reqs = <<>>
           /\ obj # None
           /\ \A k \in DOMAIN last.argRec :
                /\ k \in DOMAIN obj[1]
                /\ GetAttr(obj[1], k) = [via |-> "dict", v |-> last.argRec[k]]

\* C8: the token setter stores the credential and issues exactly one request,
\* to the token-metadata endpoint, carrying the new credential; answered, the
\* answer becomes token_info; failed, the failure reaches the caller as
\* APIError, the credential stays stored and token_info is what it was.
C8_SetCredential ==
    [][last'.op = "token.setter" =>
        /\ token' = Some(last'.cred)
        /\ Len(last'.reqs) = 1
        /\ last'.reqs[1].url = "v2/tokeninfo"
        /\ last'.reqs[1].bearer = Some(last'.cred)
        /\ IF last'.fault = "ok"
           THEN /\ last'.outcome = "ok"
                /\ token_info' = last'.servedTok
                /\ token_info' # None
           ELSE /\ last'.outcome = "APIError"
                /\ token_info' = token_info]_vars

C8_Witness ==
    /\ last.op = "token.setter"
    /\ last.outcome = "APIError"
    /\ token = Some(last.cred)
    /\ token_info # None

\* C9: get() without an id requests the literal `all` and returns a list with
\* one entity per record of the catalog the server answered with.
C9_GetAll ==
    (last.op = "GW2Enum.get" /\ last.argKind = "none" /\ last.fault = "ok")
        => /\ last.reqs[1].shape = "all"
           /\ last.outcome = "ok"
           /\ last.retKind = "list"
           /\ last.ret = [k \in 1 .. Len(last.served) |-> ThingOf(last.served[k])]

\* C10: a request that the transport ends with a connection failure, a
\* non-2xx status or an undecodable body reaches the caller of make_request
\* as APIError and as nothing else.
C10_SingleErrorKind ==
    (last.op \in {"make_request", "broker.make_request"}
        /\ last.fault \in Faults \ {"ok"})
        => last.outcome = "APIError"


\* the references of refresh's third path that are fetched by id: the strings
\* and the records whose id is truthy
FetchedPositions ==
    {k \in 1 .. Len(ids[1]) :
        \/ ids[1][k].kind = "str"
        \/ /\ ids[1][k].kind = "dict"
           /\ "id" \in DOMAIN ids[1][k].rec
           /\ ids[1][k].rec.id # 0}

\* C11 as stated: a refresh without companion enumeration, of string ids and
\* of records carrying an id, issues as many requests as the list has string
\* ids: a record is turned into an entity without a network call.
C11_RecordsNeedNoFetch ==
    (/\ last.op \in RefreshOps /\ last.refreshes = 1 /\ last.outcome = "ok"
     /\ ids # None /\ ~enum_type
     /\ \A k \in 1 .. Len(ids[1]) :
            \/ ids[1][k].kind = "str"
            \/ ids[1][k].kind = "dict" /\ "id" \in DOMAIN ids[1][k].rec)
        => Len(last.reqs)
             = Cardinality({k \in 1 .. Len(ids[1]) : ids[1][k].kind = "str"})

\* C11 amended: a refresh without companion enumeration whose fetches are all
\* answered issues one by-id request for every string id and for every record
\* carrying a truthy id, in list order, and for no other reference; the entity
\* of a record carries the fetched fields overlaid with the record's fields.
C11_FetchPerReference ==
    (/\ last.op \in RefreshOps /\ last.refreshes = 1 /\ last.outcome = "ok"
     /\ ids # None /\ ~enum_type)
        => LET asked == Pick(ids[1], FetchedPositions, 1)
           IN  /\ Len(last.reqs) = Cardinality(FetchedPositions)
               /\ things # None /\ Len(things[1]) = Len(asked)
               /\ \A j \in 1 .. Len(asked) :
                    LET id == IF asked[j].kind = "dict" THEN asked[j].rec.id
                              ELSE asked[j].id
                    IN  /\ last.reqs[j].url = ThingUrl
                        /\ last.reqs[j].key = "id"
                        /\ last.reqs[j].val = <<id>>
                        /\ \A f \in DOMAIN asked[j].rec :
                              things[1][j][f] = asked[j].rec[f]
                        /\ \A f \in DOMAIN Catalog(id) \ DOMAIN asked[j].rec :
                              things[1][j][f] = Catalog(id)[f]

C11_Witness ==
    /\ last.op = "GW2List.refresh" /\ last.outcome = "ok"
    /\ ids # None /\ ~enum_type
    /\ Len(ids[1]) = 2
    /\ ids[1][1].kind = "dict" /\ "count" \in DOMAIN ids[1][1].rec
    /\ ids[1][2].kind = "str"
    /\ Len(last.reqs) = 2


\* C12: constructing a collection with an explicit reference list, the empty
\* one included, issues no request and keeps that list; constructing it with
\* none issues one request to the collection's endpoint and keeps the answer;
\* either way the collection is left unresolved.
C12_ExplicitListNoRequest ==
    (last.op = "GW2List" /\ last.outcome = "ok")
        => /\ things = None /\ count = 0
           /\ IF last.argKind = "list"
              THEN last.reqs = <<>> /\ ids = Some(last.argRefs)
              ELSE /\ Len(last.reqs) = 1
                   /\ last.reqs[1].url = ListUrl
                   /\ ids = Some(last.servedRefs)


\* C13: after a successful refresh the resolved sequence is as long as the
\* reference list when no reference was dropped as unresolvable (the server
\* answered every id it was asked for, in request order; without companion
\* enumeration, every reference is a string id or a record with a truthy id),
\* and on the overlay path the entity at each position has the id of the
\* reference at that position; for lists longer than a batch too.
C13_ResolvedSetMatches ==
    (/\ last.op \in RefreshOps /\ last.refreshes = 1 /\ last.outcome = "ok"
     /\ ids # None /\ things # None)
        => /\ (/\ OverlayPath(ids[1])
               /\ [k \in 1 .. Len(last.served) |-> last.served[k].id]
                    = Flatten([k \in 1 .. Len(last.reqs) |-> last.reqs[k].val]))
                => /\ Len(things[1]) = Len(ids[1])
                   /\ \A k \in 1 .. Len(ids[1]) :
                        GetAttr(things[1][k], "id").v = IdOf(ids[1][k])
           /\ ~enum_type
                => /\ Len(things[1]) <= Len(ids[1])
                   /\ FetchedPositions = 1 .. Len(ids[1])
                        => Len(things[1]) = Len(ids[1])


\* C14: a refresh of a collection with a companion enumeration whose
\* references are bare ids, no request of which fails, ends without error,
\* and the resolved sequence is what the enumeration's get() returns for the
\* id list: the entities of the records answered to its requests, which go
\* out on the collection's session.
C14_DelegateToEnum ==
    (/\ last.op \in RefreshOps /\ last.refreshes = 1
     /\ last.fault \in {"none", "ok"}
     /\ ids # None /\ enum_type /\ ids[1] # <<>>
     /\ \A k \in 1 .. Len(ids[1]) : ids[1][k].kind \in {"str", "int"})
        => LET idlist == [k \in 1 .. Len(ids[1]) |-> ids[1][k].id]
           IN  /\ last.outcome = "ok"
               /\ last.reqs = ListRequests(idlist)
               /\ things # None
               /\ things[1] = [k \in 1 .. Len(last.served) |-> ThingOf(last.served[k])]
               /\ count = Len(things[1])


\* C15: GW2Thing.refresh issues one fetch, by the entity's id; answered, every
\* field of the answer has the answer's value on the entity, every field the
\* entity had that the answer lacks keeps its value, and no other field
\* appears; failed, the entity is what it was.
C15_RefreshMerges ==
    last.op = "GW2Thing.refresh"
        => /\ Len(last.reqs) = 1
           /\ last.reqs[1].url = ThingUrl
           /\ "id" \in DOMAIN last.argRec
                => (last.reqs[1].key = "id" /\ last.reqs[1].val = <<last.argRec.id>>)
           /\ obj # None
           /\ IF last.fault = "ok"
              THEN /\ last.outcome = "ok"
                   /\ DOMAIN obj[1] = DOMAIN last.argRec \cup DOMAIN last.served[1]
                   /\ \A k \in DOMAIN last.served[1] : obj[1][k] = last.served[1][k]
                   /\ \A k \in DOMAIN last.argRec \ DOMAIN last.served[1] :
                        obj[1][k] = last.argRec[k]
              ELSE /\ last.outcome = "APIError"
                   /\ obj[1] = last.argRec

C15_Witness ==
    /\ last.op = "GW2Thing.refresh" /\ last.fault = "ok"
    /\ "id" \in DOMAIN last.argRec
    /\ "details" \in DOMAIN last.argRec \ DOMAIN last.served[1]
    /\ "name" \in DOMAIN last.argRec \cap DOMAIN last.served[1]
    /\ last.argRec.name # last.served[1].name
    /\ obj[1].name = last.served[1].name
    /\ obj[1].details = last.argRec.details


\* the Authorization header the claim expects of a request of the call
\* `last` when the component holds the credential cred
BearerOf(cred) ==
    IF cred = None THEN EmptyRec ELSE [Authorization |-> "Bearer " \o cred[1]]

\* the ops whose requests are built by GW2APISession.make_request
SessionOps == {"make_request", "token.setter", "load_token"}

\* C16 as stated: every request carries `Authorization: Bearer <credential>`
\* exactly when a credential is set and no such header when none is set, and
\* the caller's headers are merged over that base and win on conflict.
C16_BearerWhenCredentialSet ==
    \A j \in 1 .. Len(last.reqs) :
        LET base == IF last.op \in SessionOps THEN BearerOf(token)
                    ELSE BearerOf(broker_token)
        IN  (last.op \in SessionOps \cup {"broker.make_request"})
                => last.reqs[j].headers = MergeHeaders(base, last.headers)

\* C16 amended: a request of the session carries `Authorization: Bearer
\* <credential>` exactly when a credential is set; a request of the earlier
\* broker carries it exactly when the call asked for auth, with the broker's
\* credential; either way the caller's headers are merged over that base and
\* win on conflict.
C16_BearerHeader ==
    \A j \in 1 .. Len(last.reqs) :
        LET base == IF last.op \in SessionOps THEN BearerOf(token)
                    ELSE IF last.auth THEN BearerOf(broker_token)
                    ELSE EmptyRec
            h == last.reqs[j].headers
        IN  (last.op \in SessionOps \cup {"broker.make_request"})
                => /\ DOMAIN h = DOMAIN base \cup DOMAIN last.headers
                   /\ \A k \in DOMAIN h :
                        h[k] = IF k \in DOMAIN last.headers THEN last.headers[k]
                               ELSE base[k]
                   /\ (last.op = "broker.make_request" /\ last.auth)
                        => broker_token # None

C16_Witness ==
    /\ last.op = "make_request"
    /\ token = Some("tokA")
    /\ last.headers = [Accept |-> "application/json"]
    /\ Len(last.reqs) = 1
    /\ last.reqs[1].headers =
          [Authorization |-> "Bearer tokA", Accept |-> "application/json"]


\* the well-formed references: a bare id, string or number, and a record
\* carrying an id, whatever its value
WellFormed(ref) ==
    \/ ref.kind \in {"str", "int"}
    \/ ref.kind = "dict" /\ "id" \in DOMAIN ref.rec

\* C17: a refresh without companion enumeration, all of whose fetches are
\* answered, resolves every well-formed reference to one entity of the
\* reference's id, in list order, and drops the other entries only.
C17_EveryReferenceResolved ==
    (/\ last.op \in RefreshOps /\ last.refreshes = 1
     /\ last.fault \in {"none", "ok"}
     /\ ids # None /\ ~enum_type)
        => LET kept == Pick(ids[1], {k \in 1 .. Len(ids[1]) : WellFormed(ids[1][k])}, 1)
           IN  /\ things # None
               /\ Len(things[1]) = Len(kept)
               /\ \A j \in 1 .. Len(kept) :
                    things[1][j].id = IF kept[j].kind = "dict" THEN kept[j].rec.id
                                      ELSE kept[j].id


C20_FailureKeepsState ==
    [][(last'.op \in RefreshOps /\ last'.refreshes = 1
            /\ last'.fault \in Faults \ {"ok"})
        => /\ last'.outcome = "APIError"
           /\ things' = things
           /\ count' = count
           /\ things = None => things' = None]_vars

C20_Witness ==
    /\ last.op = "GW2List.__iter__" /\ last.refreshes = 1
    /\ last.outcome = "APIError"
    /\ ~enum_type
    /\ Len(last.reqs) > 1
    /\ things = None /\ count = 0


\* C18: a step that changes the session's token or token_info is a step of
\* the token setter or of load_token: make_request, GW2API, the entities, the
\* enumerations, the collections and the steps of the pool's workers leave
\* both unchanged.
C18_CredentialFrame ==
    [][(token' # token \/ token_info' # token_info)
        => last'.op \in {"token.setter", "load_token"}]_vars

C18_Witness ==
    /\ last.op = "GW2List.refresh" /\ last.outcome = "running"
    /\ token = Some("tokB") /\ token_info # None
    /\ Len(last.reqs) > 1
    /\ \A j \in 1 .. Len(last.reqs) : last.reqs[j].bearer = Some("tokB")


=============================================================================
